---- MODULE Spec2Model ----
(***************************************************************************)
(* A model of BiblioWikidata's JournalArticles.py: bundle_maker, the       *)
(* provider adapters, get_data (validation, package construction, bulk     *)
(* fetch, re-association, merge) and item_creator.                         *)
(*                                                                         *)
(* A Python string is a sequence of tokens (TLA+ strings): a token is one  *)
(* character or an opaque run of characters that no operation of the       *)
(* program looks inside.  Concatenation is \o, '' is << >>.                *)
(* A Python dict is a function whose DOMAIN is the set of its keys.        *)
(***************************************************************************)
EXTENDS Integers, Sequences, FiniteSets, TLC

VARIABLES
    pc,            \* position in item_creator / get_data
    manifest,      \* the caller's list of entries (its data lists are aliased by package)
    submitted,     \* the manifest as it was when the call was made
    key_order,     \* per manifest entry, its keys in the dict's insertion order
    package,       \* get_data's list of {statements, raw_data, label}
    lookup,        \* identifiers to fetch, per provider
    associator,    \* identifier value -> position in manifest/package, per provider
    counter,       \* get_data's loop counter
    raw_data,      \* the adapters' results, per provider
    doi_ref,       \* the local doi_ref of get_data: unbound until line 264 runs
    requests,      \* the HTTP requests issued so far, in order
    error,         \* the exception that ended the call, "none" if none
    doi_org,       \* what doi.org answers for each DOI (a record, or NoRecord)
    pubmed,        \* what the PubMed esummary holds for each PMID
    pmc,           \* what the PMC esummary holds for each PMCID
    written,       \* item_creator: positions of the records whose write was attempted
    biglist,       \* bundle_maker: the list handed in
    size,          \* bundle_maker: the chunk size handed in
    bundles        \* bundle_maker: the returned list of sub-lists

vars == <<pc, manifest, submitted, key_order, package, lookup, associator, counter, raw_data,
          doi_ref, requests, error, doi_org, pubmed, pmc, written, biglist, size,
          bundles>>

(***************************************************************************)
(* Bounds of the model.                                                    *)
(***************************************************************************)
MaxManifest == 2      \* longest manifest submitted to get_data / item_creator
MaxPackage == 2       \* longest package handed to the merge loop on its own
MaxList == 4          \* longest list handed to bundle_maker
MaxSize == 3          \* largest chunk size handed to bundle_maker

\* The answer of a provider that has no record for an identifier.
NoRecord == [status |-> "not found"]
\* Python's None where a string is expected.
None == <<"<None>">>

(***************************************************************************)
(* Python helpers on strings and lists.                                    *)
(***************************************************************************)
Min(a, b) == IF a < b THEN a ELSE b

\* biglist[a:b] for 0 <= a, Python's 0-based half-open slice.
Slice(s, a, b) == SubSeq(s, a + 1, Min(b, Len(s)))

\* range(0, n, step) as a sequence.
RECURSIVE Range(_, _, _)
Range(from, n, step) ==
    IF from >= n THEN << >> ELSE <<from>> \o Range(from + step, n, step)

Last(s) == s[Len(s)]
Front(s) == SubSeq(s, 1, Len(s) - 1)

\* str.replace(old, '') for a one-token old.
Remove(s, old) == SelectSeq(s, LAMBDA t : t # old)

\* str.split(sep) for a one-token sep: the pieces between the separators.
RECURSIVE Split(_, _)
Split(s, sep) ==
    IF \A i \in 1..Len(s) : s[i] # sep THEN <<s>>
    ELSE LET i == CHOOSE k \in 1..Len(s) :
                      s[k] = sep /\ \A j \in 1..(k - 1) : s[j] # sep
         IN  <<SubSeq(s, 1, i - 1)>> \o Split(SubSeq(s, i + 1, Len(s)), sep)

\* str.zfill(2) on a string of one-character tokens.
Zfill2(s) ==
    IF Len(s) >= 2 THEN s
    ELSE IF Len(s) = 1 /\ s[1] \in {"+", "-"} THEN <<s[1], "0">>
    ELSE IF Len(s) = 1 THEN <<"0">> \o s
    ELSE <<"0", "0">>

\* html.unescape: every character reference becomes the character it names.
Entity(t) ==
    CASE t = "&amp;" -> "&"
      [] t = "&lt;"  -> "<"
      [] t = "&gt;"  -> ">"
      [] t = "&#46;" -> "."
      [] OTHER -> t

html_unescape(s) == [i \in 1..Len(s) |-> Entity(s[i])]

(***************************************************************************)
(* bundle_maker (lines 6-15).                                              *)
(***************************************************************************)
DefaultSize == 200

\* bundle_maker stepping only over the full chunks (the tail is lost).
bundle_maker_full_chunks_only(list, n) ==
    LET xs == Range(0, Len(list) - n + 1, n)
    IN  [k \in 1..Len(xs) |-> Slice(list, xs[k], xs[k] + n)]

bundle_maker(list, n) ==
    LET xs == Range(0, Len(list), n)
    IN  [k \in 1..Len(xs) |-> Slice(list, xs[k], xs[k] + n)]

RECURSIVE Concat(_)
Concat(ss) == IF ss = << >> THEN << >> ELSE Head(ss) \o Concat(Tail(ss))

(***************************************************************************)
(* Statements and references.                                              *)
(***************************************************************************)
\* generate_refsnak (lines 17-32): a one-level nested list of P248, P854, P813
\* (the P813 snak is built by WDTime with time=, which does not raise).
generate_refsnak(source, url, date) ==
    << [P248 |-> source, P854 |-> url, P813 |-> date] >>

NoRefs == << >>
NoQualifier == << >>

\* A wdi_core statement object: property, value, references, qualifier and,
\* where the constructor is given them, precision and language.
Statement(prop, value, refs, qual, precision, language) ==
    [prop_nr |-> prop, value |-> value, references |-> refs, qualifiers |-> qual,
     precision |-> precision, language |-> language]

WDString(value, prop, refs) == Statement(prop, value, refs, NoQualifier, 0, << >>)
WDItemID(value, prop, refs) == Statement(prop, value, refs, NoQualifier, 0, << >>)

\* wdi_core.WDTime.  The constructor's date parameter is named time, as line
\* 32 passes it; its other parameters are named below.  A call that leaves
\* time out, or passes a name the constructor does not have (lines 287 and
\* 424 pass value=), raises TypeError and builds no statement.
WDTimeParameters == {"time", "prop_nr", "precision", "is_reference", "references"}
TypeErrorRaised == [raised |-> "TypeError"]

WDTime(keywords, date, prop, refs, precision) ==
    IF "time" \in keywords /\ keywords \subseteq WDTimeParameters
    THEN Statement(prop, date, refs, NoQualifier, precision, << >>)
    ELSE TypeErrorRaised

WDMonolingualText(value, prop, refs) ==
    Statement(prop, value, refs, NoQualifier, 0, <<"en">>)
WDAuthor(value, position, refs) ==
    Statement("P2093", value, refs, <<ToString(position)>>, 0, << >>)

(***************************************************************************)
(* The inputs: identifiers, manifest entries, provider answers.            *)
(***************************************************************************)
Doi1 == <<"10.1/a">>
Doi2 == <<"10.1/b">>
Pmid1 == <<"111">>
Pmcid1 == <<"222">>
Issn1 == <<"1234-5678">>
Today == <<"2016-08-02">>          \* arrow.utcnow().format('YYYY-MM-DD')

Dois == {Doi1, Doi2}
Pmids == {Pmid1}
Pmcids == {Pmcid1}

\* A caller-supplied extra statement.
Extra == WDString(<<"x">>, "P921", NoRefs)

KeyDoi(d) == "doi" :> d
KeyPmid(p) == "pmid" :> p
KeyPmcid(c) == "pmcid" :> c
KeyData(l) == "data" :> l
KeyIsbn == "isbn" :> <<"0-00">>
NoKeys == << >>

\* The shapes of manifest entry submitted to get_data.
Entries ==
    { KeyDoi(Doi1),
      KeyDoi(Doi2),
      KeyDoi(Doi1) @@ KeyPmid(Pmid1),
      KeyDoi(Doi2) @@ KeyPmcid(Pmcid1),
      KeyDoi(Doi1) @@ KeyData(<<Extra>>),
      KeyDoi(Doi2) @@ KeyData(<< >>),
      KeyPmid(Pmid1),
      KeyPmcid(Pmcid1),
      KeyPmid(Pmid1) @@ KeyPmcid(Pmcid1),
      KeyPmid(Pmid1) @@ KeyData(<<Extra>>),
      KeyData(<<Extra>>),
      NoKeys,
      KeyDoi(Doi1) @@ KeyIsbn }

Manifests == UNION { [1..n -> Entries] : n \in 0..MaxManifest }

\* What doi.org answers with status 200 (citeproc JSON), in two shapes.
DoiJsonFull(d) ==
    [ title   |-> <<"Title at DOI registry">>,
      DOI     |-> d,
      created |-> ("date-time" :> <<"2016-07-30", "T", "09:00:00Z">>),
      ISSN    |-> <<Issn1>>,
      volume  |-> <<"7">>,
      issue   |-> <<"2">>,
      author  |-> << [given |-> <<"Ada">>, family |-> <<"Lovelace">>],
                     [family |-> <<"Turing">>] >> ]

DoiJsonPartial(d) == [ DOI |-> d, volume |-> <<"7">> ]

\* A record without one of its fields.
Without(record, field) == [k \in DOMAIN record \ {field} |-> record[k]]

\* The full answer without its creation date.
DoiJsonUndated(d) == Without(DoiJsonFull(d), "created")

DoiAnswer(d, kind) ==
    CASE kind = "full"    -> DoiJsonFull(d)
      [] kind = "partial" -> DoiJsonPartial(d)
      [] OTHER            -> NoRecord

\* What the esummary endpoint holds for a uid: one blob of result[uid], in
\* two shapes, without and with a title.
BlobUntitled(uid) ==
    [ uid        |-> uid,
      articleids |-> << [idtype |-> "pubmed", value |-> Pmid1],
                        [idtype |-> "pmc", value |-> <<"PMC">> \o Pmcid1],
                        [idtype |-> "doi", value |-> <<"10.1/pm">>] >>,
      pubdate    |-> <<"2016", " ", "Aug">>,
      issn       |-> Issn1,
      volume     |-> <<"9">>,
      issue      |-> <<"3">>,
      pages      |-> <<"10-20">>,
      lang       |-> <<"eng">>,
      authors    |-> << [name |-> <<"Lovelace A">>, authtype |-> "Author"],
                        [name |-> <<"Analytical Group">>, authtype |-> "CollectiveName"],
                        [name |-> <<"Turing AM">>, authtype |-> "Author"] >> ]

BlobTitled(uid) ==
    [t \in {"title"} |-> <<"Title at PubMed", ".">>] @@ BlobUntitled(uid)

\* A blob whose title is a lone period.
BlobPeriod(uid) == [BlobTitled(uid) EXCEPT !["title"] = <<".">>]

BlobAnswer(uid, kind) ==
    CASE kind = "blob"   -> BlobTitled(uid)
      [] kind = "period" -> BlobPeriod(uid)
      [] OTHER           -> NoRecord

\* The Journal-ISSN resolver's possible result bindings for one query.
EntityPrefix == "http://www.wikidata.org/entity/"
Bindings == { << >>, << <<EntityPrefix, "Q1">> >>,
              << <<EntityPrefix, "Q1">>, <<EntityPrefix, "Q2">> >> }

(***************************************************************************)
(* The provider adapters.                                                  *)
(***************************************************************************)
\* issn_to_wikidata (lines 34-52) on the bindings the query returned.
issn_to_wikidata(issn_results) ==
    IF Len(issn_results) = 1
    THEN Remove(issn_results[1], EntityPrefix)
    ELSE None

IssnRequest(issn) == [to |-> "query.wikidata.org", id |-> issn]

\* bunch_of_numbers of lines 73-76: the ids joined by commas.
RECURSIVE CommaJoin(_)
CommaJoin(bundle) ==
    IF bundle = << >> THEN << >>
    ELSE Front(Concat([i \in 1..Len(bundle) |-> bundle[i] \o <<",">>]))

\* get_pubmed (lines 54-90).  The first bundle's request is issued and its
\* answer bound to summary_retriever; line 80 then reads summary_retriever_json,
\* a name bound nowhere, which raises NameError.  With no identifiers there is
\* no bundle and the empty package is returned.
get_pubmed(identifiers, dbname) ==
    LET bs == bundle_maker(identifiers, DefaultSize)
    IN  IF bs = << >>
        THEN [package |-> << >>, requests |-> << >>, error |-> "none"]
        ELSE [package |-> << >>,
              requests |-> << [to |-> dbname, id |-> CommaJoin(bs[1])] >>,
              error |-> "NameError"]

\* get_pubmed_central (lines 92-101).
get_pubmed_central(identifiers) == get_pubmed(identifiers, "pmc")

\* The stamp of lines 126-127 (and 87-88).
QueryDate == <<"+">> \o Today \o <<"T00:00:00Z">>

\* get_doi_org (lines 103-129): one request per identifier; an answer other
\* than a 200 with JSON leaves the identifier out of the package.
get_doi_org(identifiers, answers) ==
    LET found == { d \in { identifiers[i] : i \in 1..Len(identifiers) } :
                       answers[d] # NoRecord }
    IN  [package  |-> [d \in found |-> answers[d] @@ ("__querydate" :> QueryDate)],
         requests |-> [i \in 1..Len(identifiers) |->
                           [to |-> "doi.org", id |-> identifiers[i]]],
         error    |-> "none"]

(***************************************************************************)
(* get_data, lines 148-227: validation, package construction, fetch,       *)
(* re-association.                                                         *)
(***************************************************************************)
PermittedKeys == {"pmid", "pmcid", "doi", "data"}

EmptyLookup == [pmid |-> << >>, pmcid |-> << >>, doi |-> << >>]
EmptyAssociator == [pmid |-> << >>, pmcid |-> << >>, doi |-> << >>]
EmptyRaw == [pmid |-> << >>, pmcid |-> << >>, doi |-> << >>]

\* dict[key] = value
Put(dict, key, value) == (key :> value) @@ dict

\* An exception leaves get_data (and item_creator): the locals are gone.
Raise(exc) == /\ pc' = "raised"
              /\ error' = exc

\* The key check looking at the first entry only.
UnknownKey_first_entry_only(m) ==
    m # << >> /\ \E thing \in DOMAIN m[1] : thing \notin PermittedKeys

\* Lines 148-152: the key check over the whole manifest.
UnknownKey(m) == \E i \in 1..Len(m) : \E thing \in DOMAIN m[i] : thing \notin PermittedKeys

Validate ==
    /\ pc = "validate"
    /\ IF UnknownKey(manifest)
       THEN Raise("ValueError")
       ELSE pc' = "build" /\ error' = error
    /\ UNCHANGED <<manifest, submitted, key_order, package, lookup, associator, counter, raw_data,
                   doi_ref, requests, doi_org, pubmed, pmc, written, biglist, size,
                   bundles>>

\* Lines 181-199: the statements list of an entry.  With a data key it is the
\* caller's own list object, appended to in place.
InitialStatements(entry) ==
    LET s0 == IF "data" \in DOMAIN entry THEN entry["data"] ELSE << >>
        s1 == Append(s0, WDItemID(<<"Q180686">>, "P31", NoRefs))
        s2 == IF "pmid" \in DOMAIN entry
              THEN Append(s1, WDString(entry["pmid"], "P698", NoRefs)) ELSE s1
        s3 == IF "pmcid" \in DOMAIN entry
              THEN Append(s2, WDString(entry["pmcid"], "P932", NoRefs)) ELSE s2
    IN  IF "doi" \in DOMAIN entry
        THEN Append(s3, WDString(entry["doi"], "P356", NoRefs)) ELSE s3

\* Lines 205-211: the keys of the entry that reach lookup[id_name].
LookedUp(entry) ==
    { id_name \in DOMAIN entry :
          /\ ~(id_name # "doi" /\ "doi" \in DOMAIN entry)
          /\ ~(id_name = "pmcid" /\ "pmid" \in DOMAIN entry) }

\* The caller's manifest after package[i]'s statements list became stmts:
\* entry['data'] is that same list.
Aliased(m, i, stmts) ==
    IF "data" \in DOMAIN m[i]
    THEN [m EXCEPT ![i] = Put(m[i], "data", stmts)]
    ELSE m

\* The orders in which a dict with the keys of entry can hold them.
KeyOrders(entry) ==
    { order \in [1..Cardinality(DOMAIN entry) -> DOMAIN entry] :
          \A j, k \in 1..Cardinality(DOMAIN entry) : order[j] = order[k] => j = k }

AnOrder(entry) == CHOOSE order \in KeyOrders(entry) : TRUE

\* The key orders drawn for a submitted manifest: every order of an entry
\* that has a data key (the one key the walk of lines 205-211 can stop at),
\* one order of an entry that has none (the walk ends the same in any order).
InputOrders(entry) ==
    IF "data" \in DOMAIN entry THEN KeyOrders(entry) ELSE { AnOrder(entry) }

KeyOrdersOf(m) ==
    { orders \in [1..Len(m) -> UNION { InputOrders(m[i]) : i \in 1..Len(m) }] :
          \A i \in 1..Len(m) : orders[i] \in InputOrders(m[i]) }

\* Lines 205-211: entry.items() walked in insertion order.  lookup[id_name] of
\* a name that is no key of lookup raises KeyError; what the walk appended
\* before it stays.
RECURSIVE Walk(_, _, _)
Walk(entry, keys, acc) ==
    IF keys = << >> \/ acc.error # "none" THEN acc
    ELSE LET id_name == Head(keys)
         IN  IF id_name # "doi" /\ "doi" \in DOMAIN entry
             THEN Walk(entry, Tail(keys), acc)
             ELSE IF id_name = "pmcid" /\ "pmid" \in DOMAIN entry
             THEN Walk(entry, Tail(keys), acc)
             ELSE IF id_name \notin DOMAIN acc.lookup
             THEN [acc EXCEPT !.error = "KeyError"]
             ELSE Walk(entry, Tail(keys),
                       [acc EXCEPT !.lookup[id_name] = Append(@, entry[id_name]),
                                   !.associator[id_name] =
                                       Put(@, entry[id_name], acc.counter)])

\* Lines 180-213: one iteration of the construction loop.
BuildEntry ==
    /\ pc = "build"
    /\ counter < Len(manifest)
    /\ LET entry == manifest[counter + 1]
           statements == InitialStatements(entry)
           walked == Walk(entry, key_order[counter + 1],
                          [lookup |-> lookup, associator |-> associator,
                           counter |-> counter, error |-> "none"])
       IN  /\ manifest' = Aliased(manifest, counter + 1, statements)
           /\ package' = Append(package, [statements |-> statements,
                                          raw_data |-> << >>, label |-> << >>])
           /\ lookup' = walked.lookup
           /\ associator' = walked.associator
           /\ IF walked.error # "none"
              THEN Raise(walked.error) /\ UNCHANGED counter
              ELSE counter' = counter + 1 /\ UNCHANGED <<pc, error>>
    /\ UNCHANGED <<submitted, key_order, raw_data, doi_ref, requests, doi_org, pubmed, pmc,
                   written, biglist, size, bundles>>

BuildDone ==
    /\ pc = "build"
    /\ counter = Len(manifest)
    /\ pc' = "fetch_pubmed"
    /\ UNCHANGED <<manifest, submitted, key_order, package, lookup, associator, counter, raw_data,
                   doi_ref, requests, error, doi_org, pubmed, pmc, written, biglist,
                   size, bundles>>

\* Lines 215-218: the three adapter calls, in order.
Fetch(at, source, got, next) ==
    /\ pc = at
    /\ requests' = requests \o got.requests
    /\ IF got.error # "none"
       THEN Raise(got.error) /\ UNCHANGED raw_data
       ELSE /\ raw_data' = [raw_data EXCEPT ![source] = got.package]
            /\ pc' = next
            /\ UNCHANGED error
    /\ UNCHANGED <<manifest, submitted, key_order, package, lookup, associator, counter, doi_ref,
                   doi_org, pubmed, pmc, written, biglist, size, bundles>>

FetchPubmed == Fetch("fetch_pubmed", "pmid", get_pubmed(lookup.pmid, "pubmed"), "fetch_pmc")
FetchPmc == Fetch("fetch_pmc", "pmcid", get_pubmed_central(lookup.pmcid), "fetch_doi")
FetchDoi == Fetch("fetch_doi", "doi", get_doi_org(lookup.doi, doi_org), "route")

\* Lines 224-227: every result goes to the package entry its identifier is
\* associated with.
Routed(pkg, raw, assoc) ==
    [i \in 1..Len(pkg) |->
        [pkg[i] EXCEPT !.raw_data =
            [src \in { s \in DOMAIN raw : \E id \in DOMAIN raw[s] : assoc[s][id] = i - 1 }
                |-> raw[src][CHOOSE id \in DOMAIN raw[src] : assoc[src][id] = i - 1]]]]

Route ==
    /\ pc = "route"
    /\ IF \E s \in DOMAIN raw_data : \E id \in DOMAIN raw_data[s] :
              id \notin DOMAIN associator[s]
       THEN Raise("KeyError") /\ UNCHANGED <<package, counter>>
       ELSE /\ package' = Routed(package, raw_data, associator)
            /\ counter' = 0
            /\ pc' = "merge"
            /\ UNCHANGED error
    /\ UNCHANGED <<manifest, submitted, key_order, lookup, associator, raw_data, doi_ref, requests,
                   doi_org, pubmed, pmc, written, biglist, size, bundles>>

(***************************************************************************)
(* get_data, lines 229-494: the merge of one package entry.                *)
(*                                                                         *)
(* The merge threads an accumulator through the slots in source order:     *)
(*   stmts     the statements appended to package[counter]['statements']   *)
(*   label     package[counter]['label']                                   *)
(*   filled    the slots whose statement_<slot> variable is no longer None *)
(*   authors   statement_authors                                           *)
(*   doi_ref   the local doi_ref (Unbound, or bound to a reference list)   *)
(*   requests  the resolver requests issued                                *)
(*   error     the exception raised, after which nothing more is done      *)
(***************************************************************************)
\* A local name: not yet assigned, or bound to a value.
Unbound == [bound |-> FALSE, value |-> << >>]
Bound(v) == [bound |-> TRUE, value |-> v]

months ==
    [ Jan |-> <<"0", "1">>, Feb |-> <<"0", "2">>, Mar |-> <<"0", "3">>,
      Apr |-> <<"0", "4">>, May |-> <<"0", "5">>, Jun |-> <<"0", "6">>,
      Jul |-> <<"0", "7">>, Aug |-> <<"0", "8">>, Sep |-> <<"0", "9">>,
      Oct |-> <<"1", "0">>, Nov |-> <<"1", "1">>, Dec |-> <<"1", "2">> ]

Ok(acc) == acc.error = "none"
Fail(acc, exc) == [acc EXCEPT !.error = exc]

\* Fill without the assignment to statement_<slot>.
Fill_without_sentinel(acc, slot, st) == [acc EXCEPT !.stmts = Append(@, st)]

\* statement_<slot> = st; package[counter]['statements'].append(st)
Fill(acc, slot, st) ==
    [acc EXCEPT !.stmts = Append(@, st), !.filled = @ \cup {slot}]

\* A call of issn_to_wikidata: the query of lines 42-45 is issued.
Resolve(acc, issn) == [acc EXCEPT !.requests = Append(@, IssnRequest(issn))]

\* Lines 269-276.
DoiTitle(acc, doi_data, ref) ==
    IF Ok(acc) /\ "title" \in DOMAIN doi_data /\ "title" \notin acc.filled
    THEN [Fill(acc, "title", WDMonolingualText(doi_data["title"], "P1476", ref))
             EXCEPT !.label = doi_data["title"]]
    ELSE acc

\* Lines 278-283.
DoiDoi(acc, doi_data, ref) ==
    IF Ok(acc) /\ "DOI" \in DOMAIN doi_data /\ "doi" \notin acc.filled
    THEN Fill(acc, "doi", WDString(doi_data["DOI"], "P356", ref))
    ELSE acc

\* A statement to fill a slot with, or the exception its constructor raised.
FillOrRaise(acc, slot, st) ==
    IF st = TypeErrorRaised THEN Fail(acc, "TypeError") ELSE Fill(acc, slot, st)

\* Lines 285-291.  WDTime is called with value=, prop_nr= and references=.
DoiPubdate(acc, doi_data, ref) ==
    IF Ok(acc) /\ "created" \in DOMAIN doi_data /\ "pubdate" \notin acc.filled
    THEN LET to_add == Split(doi_data["created"]["date-time"], "T")[1]
         IN  FillOrRaise(acc, "pubdate",
                         WDTime({"value", "prop_nr", "references"}, to_add, "P577", ref, 0))
    ELSE acc

\* Lines 293-300.  ISSN[0] of an empty list raises IndexError.
DoiPublishedIn(acc, doi_data, ref, bindings) ==
    IF Ok(acc) /\ "ISSN" \in DOMAIN doi_data /\ "publishedin" \notin acc.filled
    THEN LET journal == issn_to_wikidata(bindings)
             asked == Resolve(acc, doi_data["ISSN"][1])
         IN  IF doi_data["ISSN"] = << >> THEN Fail(acc, "IndexError")
             ELSE IF journal # None
             THEN Fill(asked, "publishedin", WDItemID(journal, "P1433", ref))
             ELSE asked
    ELSE acc

\* Lines 302-307.
DoiVolume(acc, doi_data, ref) ==
    IF Ok(acc) /\ "volume" \in DOMAIN doi_data /\ "volume" \notin acc.filled
    THEN Fill(acc, "volume", WDString(doi_data["volume"], "P478", ref))
    ELSE acc

\* Lines 309-314.
DoiIssue(acc, doi_data, ref) ==
    IF Ok(acc) /\ "issue" \in DOMAIN doi_data /\ "issue" \notin acc.filled
    THEN Fill(acc, "issue", WDString(doi_data["issue"], "P433", ref))
    ELSE acc

\* Lines 320-324: the display name of one DOI author.
DoiAuthorName(author) ==
    LET a == IF "family" \in DOMAIN author THEN author["family"] ELSE << >>
    IN  IF "given" \in DOMAIN author THEN author["given"] \o <<" ">> \o a ELSE a

\* Lines 316-337.
DoiAuthors(acc, doi_data, ref) ==
    IF Ok(acc) /\ "author" \in DOMAIN doi_data /\ acc.authors = << >>
    THEN LET list == doi_data["author"]
             made == [k \in 1..Len(list) |-> WDAuthor(DoiAuthorName(list[k]), k, ref)]
         IN  [acc EXCEPT !.authors = made, !.stmts = @ \o made]
    ELSE acc

\* DoiPhase building doi_ref once and keeping it for the entries that follow.
DoiPhase_first_reference(acc, entry, doi_data, bindings) ==
    IF doi_data = << >> THEN acc
    ELSE IF "doi" \notin DOMAIN entry THEN Fail(acc, "KeyError")
    ELSE LET ref == IF acc.doi_ref.bound THEN acc.doi_ref.value
                    ELSE generate_refsnak(<<"Q28946522">>,
                                          <<"https://doi.org/">> \o entry["doi"],
                                          doi_data["__querydate"])
             a0 == [acc EXCEPT !.doi_ref = Bound(ref)]
             a1 == DoiTitle(a0, doi_data, ref)
             a2 == DoiDoi(a1, doi_data, ref)
             a3 == DoiPubdate(a2, doi_data, ref)
             a4 == DoiPublishedIn(a3, doi_data, ref, bindings)
             a5 == DoiVolume(a4, doi_data, ref)
             a6 == DoiIssue(a5, doi_data, ref)
         IN  DoiAuthors(a6, doi_data, ref)

\* Lines 263-337: the DOI-registration record is applied first.
DoiPhase(acc, entry, doi_data, bindings) ==
    IF doi_data = << >> THEN acc
    ELSE IF "doi" \notin DOMAIN entry THEN Fail(acc, "KeyError")
    ELSE LET ref == generate_refsnak(<<"Q28946522">>,
                                     <<"https://doi.org/">> \o entry["doi"],
                                     doi_data["__querydate"])
             a0 == [acc EXCEPT !.doi_ref = Bound(ref)]
             a1 == DoiTitle(a0, doi_data, ref)
             a2 == DoiDoi(a1, doi_data, ref)
             a3 == DoiPubdate(a2, doi_data, ref)
             a4 == DoiPublishedIn(a3, doi_data, ref, bindings)
             a5 == DoiVolume(a4, doi_data, ref)
             a6 == DoiIssue(a5, doi_data, ref)
         IN  DoiAuthors(a6, doi_data, ref)

\* Lines 347-365.  The title is unescaped, loses one trailing period (t[0] on
\* what is left raises IndexError when nothing is left) and its enclosing
\* brackets; line 356 then reads `re`, which the module never imports, so the
\* statement of lines 359-365 is never built.
PubmedTitle(acc, pubmed_data, ref) ==
    IF Ok(acc) /\ "title" \in DOMAIN pubmed_data /\ "title" \notin acc.filled
    THEN LET t0 == html_unescape(pubmed_data["title"])
             t1 == IF Last(t0) = "." THEN Front(t0) ELSE t0
         IN  IF t0 = << >> THEN acc
             ELSE IF t1 = << >> THEN Fail(acc, "IndexError")
             ELSE Fail(acc, "NameError")
    ELSE acc

\* Lines 367-396: the article-ID block, in order.
RECURSIVE PubmedArticleIds(_, _, _)
PubmedArticleIds(acc, blocks, ref) ==
    IF blocks = << >> \/ ~Ok(acc) THEN acc
    ELSE LET block == Head(blocks)
             next ==
                 IF block.idtype = "pmc" /\ "pmcid" \notin acc.filled
                 THEN Fill(acc, "pmcid", WDString(Remove(block.value, "PMC"), "P932", ref))
                 ELSE IF block.idtype = "pmcid" /\ "pmcid" \notin acc.filled
                 THEN Fill(acc, "pmcid", WDString(Remove(block.value, "PMC"), "P932", ref))
                 ELSE IF block.idtype = "doi" /\ "doi" \notin acc.filled
                 THEN Fill(acc, "doi", WDString(block.value, "P356", ref))
                 ELSE IF block.idtype \in {"pmid", "pubmed"} /\ "pmid" \notin acc.filled
                 THEN Fill(acc, "pmid", WDString(block.value, "P698", ref))
                 ELSE acc
         IN  PubmedArticleIds(next, Tail(blocks), ref)

\* Lines 402-406: the month of a pubdate of two or more tokens.
MonthOf(pubdate_raw) ==
    IF Len(pubdate_raw[2]) = 1 /\ pubdate_raw[2][1] \in DOMAIN months
    THEN months[pubdate_raw[2][1]]
    ELSE <<"0", "0">>

\* Lines 398-429.  The date and its precision follow the number of tokens;
\* WDTime is then called with value=, precision=, prop_nr= and references=.
PubmedPubdate(acc, pubmed_data, ref) ==
    IF Ok(acc) /\ "pubdate" \in DOMAIN pubmed_data /\ "pubdate" \notin acc.filled
    THEN LET pubdate_raw == Split(pubmed_data["pubdate"], " ")
             keywords == {"value", "precision", "prop_nr", "references"}
         IN  IF Len(pubdate_raw) = 3
             THEN FillOrRaise(acc, "pubdate",
                       WDTime(keywords,
                              <<"+">> \o pubdate_raw[1] \o <<"-">> \o MonthOf(pubdate_raw)
                                  \o <<"-">> \o Zfill2(pubdate_raw[3]) \o <<"T00:00:00Z">>,
                              "P577", ref, 11))
             ELSE IF Len(pubdate_raw) = 2
             THEN FillOrRaise(acc, "pubdate",
                       WDTime(keywords,
                              <<"+">> \o pubdate_raw[1] \o <<"-">> \o MonthOf(pubdate_raw)
                                  \o <<"-", "0", "0", "T00:00:00Z">>,
                              "P577", ref, 10))
             ELSE IF Len(pubdate_raw) = 1
             THEN FillOrRaise(acc, "pubdate",
                       WDTime(keywords,
                              <<"+">> \o pubdate_raw[1]
                                  \o <<"-", "0", "0", "-", "0", "0", "T00:00:00Z">>,
                              "P577", ref, 9))
             ELSE acc
    ELSE acc

\* Lines 431-439.
PubmedPublishedIn(acc, pubmed_data, ref, bindings) ==
    IF /\ Ok(acc) /\ "issn" \in DOMAIN pubmed_data /\ "publishedin" \notin acc.filled
       /\ pubmed_data["issn"] # << >>
    THEN LET journal == issn_to_wikidata(bindings)
             asked == Resolve(acc, pubmed_data["issn"])
         IN  IF journal # None
             THEN Fill(asked, "publishedin", WDItemID(journal, "P1433", ref))
             ELSE asked
    ELSE acc

\* Lines 441-463: volume, issue and pages are copied when not ''.
PubmedCopy(acc, pubmed_data, ref, field, prop) ==
    IF /\ Ok(acc) /\ field \in DOMAIN pubmed_data /\ field \notin acc.filled
       /\ pubmed_data[field] # << >>
    THEN Fill(acc, field, WDString(pubmed_data[field], prop, ref))
    ELSE acc

\* Lines 465-474: statement_origlanguage is tested before the loop only, so
\* every 'eng' of the list appends a statement.
PubmedLang(acc, pubmed_data, ref) ==
    IF Ok(acc) /\ "lang" \in DOMAIN pubmed_data /\ "origlanguage" \notin acc.filled
    THEN LET english == SelectSeq(pubmed_data["lang"], LAMBDA langcode : langcode = "eng")
             made == [k \in 1..Len(english) |-> WDItemID(<<"Q1860">>, "P364", ref)]
         IN  [acc EXCEPT !.stmts = @ \o made,
                         !.filled = IF made = << >> THEN @ ELSE @ \cup {"origlanguage"}]
    ELSE acc

\* Lines 476-492.  The reference given to each author statement is doi_ref,
\* whatever it is bound to at that moment; reading it unbound raises
\* UnboundLocalError.
PubmedAuthors(acc, pubmed_data, ref) ==
    IF Ok(acc) /\ "authors" \in DOMAIN pubmed_data /\ acc.authors = << >>
    THEN LET real == SelectSeq(pubmed_data["authors"],
                               LAMBDA author : author.authtype = "Author")
             made == [k \in 1..Len(real) |-> WDAuthor(real[k].name, k, acc.doi_ref.value)]
         IN  IF real # << >> /\ ~acc.doi_ref.bound
             THEN Fail(acc, "UnboundLocalError")
             ELSE [acc EXCEPT !.authors = made, !.stmts = @ \o made]
    ELSE acc

\* Lines 234-240: the PubMed-family record of the entry and its source.
PubmedSource(raw) ==
    IF "pmcid" \in DOMAIN raw THEN [db |-> "pmc", item |-> <<"Q229883">>, data |-> raw["pmcid"]]
    ELSE IF "pmid" \in DOMAIN raw
    THEN [db |-> "pubmed", item |-> <<"Q180686">>, data |-> raw["pmid"]]
    ELSE [db |-> "", item |-> << >>, data |-> << >>]

\* Line 340, formatted with the database name and the uid.
EsummaryUrl(db, uid) ==
    <<"https://eutils.ncbi.nlm.nih.gov/entrez/eutils/esummary.fcgi?db=", db,
      "&retmode=json&id=">> \o uid

\* Lines 339-492: the PubMed-family record is applied second.
PubmedPhase(acc, src, bindings) ==
    IF src.data = << >> \/ ~Ok(acc) THEN acc
    ELSE LET pubmed_data == src.data
             ref == generate_refsnak(src.item, EsummaryUrl(src.db, pubmed_data["uid"]),
                                     pubmed_data["__querydate"])
             a1 == PubmedTitle(acc, pubmed_data, ref)
             a2 == IF "articleids" \in DOMAIN pubmed_data
                   THEN PubmedArticleIds(a1, pubmed_data["articleids"], ref) ELSE a1
             a3 == PubmedPubdate(a2, pubmed_data, ref)
             a4 == PubmedPublishedIn(a3, pubmed_data, ref, bindings)
             a5 == PubmedCopy(a4, pubmed_data, ref, "volume", "P478")
             a6 == PubmedCopy(a5, pubmed_data, ref, "issue", "P433")
             a7 == PubmedCopy(a6, pubmed_data, ref, "pages", "P304")
             a8 == PubmedLang(a7, pubmed_data, ref)
         IN  PubmedAuthors(a8, pubmed_data, ref)

\* Lines 230-494: the body of the merge loop for one entry.
merge(entry, pkg_entry, ref_before, doi_bindings, pubmed_bindings) ==
    LET raw == pkg_entry.raw_data
        doi_data == IF "doi" \in DOMAIN raw THEN raw["doi"] ELSE << >>
        start == [stmts |-> << >>, label |-> pkg_entry.label, filled |-> {},
                  authors |-> << >>, doi_ref |-> ref_before, requests |-> << >>,
                  error |-> "none"]
    IN  PubmedPhase(DoiPhase(start, entry, doi_data, doi_bindings),
                    PubmedSource(raw), pubmed_bindings)

\* The answers the resolver may give to the queries of one entry's merge: one
\* for the DOI-registration record's ISSN, one for the PubMed-family record's.
ResolverAnswers(raw) ==
    { [doi |-> d, pubmed |-> p] :
        d \in IF "doi" \in DOMAIN raw /\ "ISSN" \in DOMAIN raw["doi"]
              THEN Bindings ELSE { << >> },
        p \in IF "issn" \in DOMAIN PubmedSource(raw).data
              THEN Bindings ELSE { << >> } }

\* The state after the loop body ran on entry i with result got.
AfterMerge(i, got) ==
    LET statements == package[i].statements \o got.stmts
    IN  [package  |-> [package EXCEPT ![i].statements = statements,
                                      ![i].label = got.label],
         manifest |-> Aliased(manifest, i, statements),
         doi_ref  |-> got.doi_ref,
         requests |-> requests \o got.requests,
         error    |-> got.error]

MergeEntry ==
    /\ pc = "merge"
    /\ counter < Len(package)
    /\ \E answers \in ResolverAnswers(package[counter + 1].raw_data) :
         \E after \in { AfterMerge(counter + 1,
                                merge(manifest[counter + 1], package[counter + 1], doi_ref,
                                      answers.doi, answers.pubmed)) } :
             /\ package' = after.package
             /\ manifest' = after.manifest
             /\ doi_ref' = after.doi_ref
             /\ requests' = after.requests
             /\ IF after.error = "none"
                THEN counter' = counter + 1 /\ UNCHANGED <<pc, error>>
                ELSE Raise(after.error) /\ UNCHANGED counter
    /\ UNCHANGED <<submitted, key_order, lookup, associator, raw_data, doi_org, pubmed, pmc,
                   written, biglist, size, bundles>>

\* Line 496.
Return ==
    /\ pc = "merge"
    /\ counter = Len(package)
    /\ pc' = "returned"
    /\ UNCHANGED <<manifest, submitted, key_order, package, lookup, associator, counter, raw_data,
                   doi_ref, requests, error, doi_org, pubmed, pmc, written, biglist,
                   size, bundles>>

(***************************************************************************)
(* item_creator (lines 498-523).  retrieved_data is get_data's package.    *)
(* Line 518 builds the item engine outside the try and may raise (the      *)
(* engine talks to the store).  Line 520 reads WIKI_SESSION, which is not  *)
(* a name of this module (it is bound in the package's __init__ only), so  *)
(* the write always raises NameError, which lines 521-523 catch and print. *)
(***************************************************************************)
Remaining == pc = "returned" /\ Len(written) < Len(package) 

\* Line 518 raises: nothing catches it.
CreateFails ==
    /\ Remaining
    /\ Raise("EngineError")
    /\ UNCHANGED <<manifest, submitted, key_order, package, lookup, associator, counter, raw_data,
                   doi_ref, requests, doi_org, pubmed, pmc, written, biglist, size,
                   bundles>>

\* Lines 518-523 for one record: the engine is built, line 520 raises, lines
\* 521-523 print the exception and go on.
WriteFails ==
    /\ Remaining
    /\ written' = Append(written, [record |-> Len(written), outcome |-> "printed"])
    /\ UNCHANGED <<pc, manifest, submitted, key_order, package, lookup, associator, counter,
                   raw_data, doi_ref, requests, error, doi_org, pubmed, pmc, biglist,
                   size, bundles>>

Finish ==
    /\ pc = "returned"
    /\ Len(written) = Len(package)
    /\ pc' = "done"
    /\ UNCHANGED <<manifest, submitted, key_order, package, lookup, associator, counter, raw_data,
                   doi_ref, requests, error, doi_org, pubmed, pmc, written, biglist,
                   size, bundles>>

(***************************************************************************)
(* Spec: item_creator(manifest), whose first statement is get_data.        *)
(***************************************************************************)
DoiKinds == {"full", "partial", "none"}
BlobKinds == {"blob", "none"}
PubmedKinds == {"blob", "period", "none"}

Init ==
    /\ pc = "validate"
    /\ manifest \in Manifests
    /\ submitted = manifest
    /\ key_order \in KeyOrdersOf(manifest)
    /\ package = << >>
    /\ lookup = EmptyLookup
    /\ associator = EmptyAssociator
    /\ counter = 0
    /\ raw_data = EmptyRaw
    /\ doi_ref = Unbound
    /\ requests = << >>
    /\ error = "none"
    /\ \E kind \in [Dois -> DoiKinds] : doi_org = [d \in Dois |-> DoiAnswer(d, kind[d])]
    /\ \E kind \in [Pmids -> PubmedKinds] : pubmed = [p \in Pmids |-> BlobAnswer(p, kind[p])]
    /\ \E kind \in [Pmcids -> BlobKinds] : pmc = [c \in Pmcids |-> BlobAnswer(c, kind[c])]
    /\ written = << >>
    /\ biglist = << >>
    /\ size = DefaultSize
    /\ bundles = << >>

Next ==
    \/ Validate
    \/ BuildEntry
    \/ BuildDone
    \/ FetchPubmed
    \/ FetchPmc
    \/ FetchDoi
    \/ Route
    \/ MergeEntry
    \/ Return
    \/ CreateFails
    \/ WriteFails
    \/ Finish

Spec == Init /\ [][Next]_vars

(***************************************************************************)
(* SpecMerge: the merge loop of get_data (lines 229-496) on its own, from  *)
(* a package whose entries hold any of the provider records, stamped as    *)
(* the adapters stamp them.  It holds more than get_data can reach: under  *)
(* Spec the PubMed-family adapters never return a record (get_pubmed, line *)
(* 80).  What holds of every behaviour here holds of get_data's merge.     *)
(***************************************************************************)
Stamped(json) == json @@ ("__querydate" :> QueryDate)

\* The DOI-registration records an entry may hold.
DoiRaws(entry) ==
    IF "doi" \in DOMAIN entry
    THEN { << >>,
           "doi" :> Stamped(DoiJsonFull(entry["doi"])),
           "doi" :> Stamped(DoiJsonUndated(entry["doi"])),
           "doi" :> Stamped(DoiJsonPartial(entry["doi"])) }
    ELSE { << >> }

\* The PubMed-family records an entry may hold.
PubmedRaws ==
    { << >>,
      "pmid" :> Stamped(BlobTitled(Pmid1)),
      "pmid" :> Stamped(BlobUntitled(Pmid1)),
      "pmid" :> Stamped(Without(BlobTitled(Pmid1), "pubdate")),
      "pmcid" :> Stamped(Without(BlobUntitled(Pmcid1), "pubdate")),
      ("pmid" :> Stamped(BlobUntitled(Pmid1))) @@ ("pmcid" :> Stamped(BlobTitled(Pmcid1))) }

MergeEntries ==
    { KeyDoi(Doi1) @@ KeyPmid(Pmid1),
      KeyPmid(Pmid1),
      KeyPmcid(Pmcid1) }

\* A manifest entry with the package entry lines 180-227 leave for it.
Loaded(entry) ==
    { [entry |-> entry,
       pkg   |-> [statements |-> InitialStatements(entry),
                  raw_data   |-> d @@ p,
                  label      |-> << >>]] : d \in DoiRaws(entry), p \in PubmedRaws }

AllLoaded == UNION { Loaded(entry) : entry \in MergeEntries }

InitMerge ==
    /\ pc = "merge"
    /\ \E n \in 0..MaxPackage : \E work \in [1..n -> AllLoaded] :
          /\ submitted = [i \in 1..n |-> work[i].entry]
          /\ key_order = [i \in 1..n |-> AnOrder(work[i].entry)]
          /\ manifest = [i \in 1..n |->
                            Aliased(submitted, i, work[i].pkg.statements)[i]]
          /\ package = [i \in 1..n |-> work[i].pkg]
    /\ lookup = EmptyLookup
    /\ associator = EmptyAssociator
    /\ counter = 0
    /\ raw_data = EmptyRaw
    /\ doi_ref = Unbound
    /\ requests = << >>
    /\ error = "none"
    /\ doi_org = [d \in Dois |-> NoRecord]
    /\ pubmed = [p \in Pmids |-> NoRecord]
    /\ pmc = [c \in Pmcids |-> NoRecord]
    /\ written = << >>
    /\ biglist = << >>
    /\ size = DefaultSize
    /\ bundles = << >>

NextMerge == MergeEntry \/ Return

SpecMerge == InitMerge /\ [][NextMerge]_vars

(***************************************************************************)
(* SpecBundle: bundle_maker applied to a list and a positive size.         *)
(***************************************************************************)
Items == {"a", "b"}

Lists == UNION { [1..n -> Items] : n \in 0..MaxList }

InitBundle ==
    /\ pc = "bundle_maker"
    /\ biglist \in Lists
    /\ size \in 1..MaxSize
    /\ bundles = << >>
    /\ manifest = << >>
    /\ submitted = << >>
    /\ key_order = << >>
    /\ package = << >>
    /\ lookup = EmptyLookup
    /\ associator = EmptyAssociator
    /\ counter = 0
    /\ raw_data = EmptyRaw
    /\ doi_ref = Unbound
    /\ requests = << >>
    /\ error = "none"
    /\ doi_org = [d \in Dois |-> NoRecord]
    /\ pubmed = [p \in Pmids |-> NoRecord]
    /\ pmc = [c \in Pmcids |-> NoRecord]
    /\ written = << >>

BundleMaker ==
    /\ pc = "bundle_maker"
    /\ bundles' = bundle_maker(biglist, size)
    /\ pc' = "bundled"
    /\ UNCHANGED <<manifest, submitted, key_order, package, lookup, associator, counter, raw_data,
                   doi_ref, requests, error, doi_org, pubmed, pmc, written, biglist,
                   size>>

NextBundle == BundleMaker

SpecBundle == InitBundle /\ [][NextBundle]_vars

(***************************************************************************)
(* Properties.                                                             *)
(***************************************************************************)
Returned == pc \in {"returned", "done"} \/ (pc = "raised" /\ error = "EngineError")
GetDataRaised == pc = "raised" /\ error # "EngineError"

Identifiers == {"doi", "pmcid", "pmid"}

\* C10: bundle_maker(L, n) for a positive n returns sub-lists whose
\* concatenation in order is L; every sub-list but the last has length n, the
\* last has length 1..n, and the empty list yields no sub-list.
C10_BundleMakerPartitions ==
    pc = "bundled" =>
        /\ Concat(bundles) = biglist
        /\ \A k \in 1..(Len(bundles) - 1) : Len(bundles[k]) = size
        /\ bundles # << >> => Len(bundles[Len(bundles)]) \in 1..size
        /\ biglist = << >> => bundles = << >>

C10_Witness ==
    /\ pc = "bundled"
    /\ Len(bundles) >= 2
    /\ Len(bundles[Len(bundles)]) < size

\* C5: a manifest with an entry that has a key other than doi, pmcid, pmid,
\* data is rejected with ValueError before any request is issued and before
\* any record is built, wherever the entry is in the manifest.
C5_Offending(m) ==
    \E i \in 1..Len(m) : DOMAIN m[i] \ {"doi", "pmcid", "pmid", "data"} # {}

C5_UnknownKeyRejectedFirst ==
    C5_Offending(submitted) =>
        /\ pc \in {"validate", "raised"}
        /\ pc = "raised" => error = "ValueError"
        /\ requests = << >>
        /\ package = << >>
        /\ manifest = submitted

C5_Witness ==
    /\ pc = "raised"
    /\ error = "ValueError"
    /\ Len(submitted) = 2
    /\ ~C5_Offending(<<submitted[1]>>)
    /\ C5_Offending(<<submitted[2]>>)
    /\ requests = << >>

\* The references a statement of entry i should carry when it was filled from
\* the entry's DOI-registration record, or from its PubMed-family record.
OwnDoiRef(i) ==
    generate_refsnak(<<"Q28946522">>, <<"https://doi.org/">> \o submitted[i]["doi"],
                     package[i].raw_data["doi"]["__querydate"])

OwnPubmedRef(i) ==
    LET raw == package[i].raw_data
    IN  IF "pmcid" \in DOMAIN raw
        THEN generate_refsnak(<<"Q229883">>, EsummaryUrl("pmc", raw["pmcid"]["uid"]),
                              raw["pmcid"]["__querydate"])
        ELSE generate_refsnak(<<"Q180686">>, EsummaryUrl("pubmed", raw["pmid"]["uid"]),
                              raw["pmid"]["__querydate"])

HasDoiRecord(i) == "doi" \in DOMAIN package[i].raw_data
HasPubmedRecord(i) == DOMAIN package[i].raw_data \cap {"pmid", "pmcid"} # {}

\* The merge loop has been through entry i (to its end, or to an exception).
Merged(i) == i <= counter \/ (pc = "raised" /\ i = counter + 1)

\* The statements of entry i with property prop that a provider record filled.
Provided(i, prop) ==
    LET stmts == package[i].statements
    IN  [k \in 1..Len(SelectSeq(stmts, LAMBDA st : st.prop_nr = prop /\ st.references # NoRefs))
            |-> SelectSeq(stmts, LAMBDA st : st.prop_nr = prop /\ st.references # NoRefs)[k]]

\* Slot prop of entry i holds the one DOI-registration value and nothing else.
OnlyDoiValue(i, prop, value) ==
    /\ Len(Provided(i, prop)) = 1
    /\ Provided(i, prop)[1].value = value
    /\ Provided(i, prop)[1].references = OwnDoiRef(i)

\* The display names of the authors a PubMed-family record lists.
PubmedNames(record) ==
    IF "authors" \in DOMAIN record
    THEN { record["authors"][k].name : k \in 1..Len(record["authors"]) }
    ELSE {}

\* The properties of the slots DOI-registration record d has a field for.
DoiSlots(d) ==
    { slot.prop : slot \in { pair \in { [field |-> "title", prop |-> "P1476"],
                                        [field |-> "DOI", prop |-> "P356"],
                                        [field |-> "created", prop |-> "P577"],
                                        [field |-> "volume", prop |-> "P478"],
                                        [field |-> "issue", prop |-> "P433"],
                                        [field |-> "author", prop |-> "P2093"] } :
                                pair.field \in DOMAIN d } }

\* The merge of entry i was cut short inside the DOI-registration phase: the
\* WDTime call of line 287 raised.
CutShort(i) ==
    /\ pc = "raised" /\ i = counter + 1 /\ error = "TypeError"
    /\ "created" \in DOMAIN package[i].raw_data["doi"]

\* C1: when an entry holds both a DOI-registration record and a PubMed-family
\* record, every slot the DOI-registration record fills (title, DOI,
\* publication date, venue, volume, issue, authors) holds the DOI-registration
\* value and no PubMed-family value; the label is the DOI-registration title.
\* No slot the DOI-registration record has a field for ever holds a statement
\* with another reference, also when the merge is cut short.
C1_DoiRegistrationWins ==
    \A i \in 1..Len(package) :
        (Merged(i) /\ HasDoiRecord(i) /\ HasPubmedRecord(i)) =>
            LET d == package[i].raw_data["doi"]
                p == PubmedSource(package[i].raw_data).data
            IN  /\ \A prop \in DoiSlots(d) : \A k \in 1..Len(Provided(i, prop)) :
                      Provided(i, prop)[k].references = OwnDoiRef(i)
                /\ ~CutShort(i) =>
                      /\ "title" \in DOMAIN d =>
                            /\ OnlyDoiValue(i, "P1476", d["title"])
                            /\ package[i].label = d["title"]
                      /\ "DOI" \in DOMAIN d => OnlyDoiValue(i, "P356", d["DOI"])
                      /\ "created" \in DOMAIN d =>
                            OnlyDoiValue(i, "P577", <<d["created"]["date-time"][1]>>)
                      /\ (\E k \in 1..Len(Provided(i, "P1433")) :
                              Provided(i, "P1433")[k].references = OwnDoiRef(i)) =>
                            Len(Provided(i, "P1433")) = 1
                      /\ "volume" \in DOMAIN d => OnlyDoiValue(i, "P478", d["volume"])
                      /\ "issue" \in DOMAIN d => OnlyDoiValue(i, "P433", d["issue"])
                      /\ ("author" \in DOMAIN d /\ d["author"] # << >>) =>
                            /\ Len(Provided(i, "P2093")) = Len(d["author"])
                            /\ \A k \in 1..Len(d["author"]) :
                                  /\ Provided(i, "P2093")[k].references = OwnDoiRef(i)
                                  /\ Provided(i, "P2093")[k].qualifiers = <<ToString(k)>>
                                  /\ Provided(i, "P2093")[k].value \notin PubmedNames(p)

C1_Witness ==
    /\ pc = "returned"
    /\ Len(package) >= 1
    /\ HasDoiRecord(1) /\ HasPubmedRecord(1)
    /\ "title" \in DOMAIN package[1].raw_data["doi"]
    /\ "title" \in DOMAIN package[1].raw_data["pmid"]
    /\ "volume" \in DOMAIN package[1].raw_data["pmid"]
    /\ package[1].label = package[1].raw_data["doi"]["title"]
    /\ Len(Provided(1, "P304")) = 1

\* The cleaned form of a PubMed title: unescaped, one trailing period
\* stripped, enclosing brackets stripped, inline tags stripped.
Tags == {"<sub>", "</sub>", "<sup>", "</sup>", "<i>", "</i>", "<b>", "</b>"}

Cleaned(title) ==
    LET t0 == html_unescape(title)
        t1 == IF t0 # << >> /\ Last(t0) = "." THEN Front(t0) ELSE t0
        t2 == IF Len(t1) >= 2 /\ t1[1] = "[" /\ Last(t1) = "]"
              THEN SubSeq(t1, 2, Len(t1) - 1) ELSE t1
    IN  SelectSeq(t2, LAMBDA t : t \notin Tags)

\* What the providers hold for the identifiers of a submitted entry.
DoiTitleOffered(entry) ==
    /\ "doi" \in DOMAIN entry
    /\ doi_org[entry["doi"]] # NoRecord
    /\ "title" \in DOMAIN doi_org[entry["doi"]]

PubmedOffer(entry) ==
    IF "pmcid" \in DOMAIN entry /\ pmc[entry["pmcid"]] # NoRecord
    THEN pmc[entry["pmcid"]]
    ELSE IF "pmid" \in DOMAIN entry THEN pubmed[entry["pmid"]]
    ELSE NoRecord

\* C2: when only the PubMed-family record supplies the title (no DOI record,
\* or a DOI record without a title), the title of the entry's record is the
\* cleaned PubMed title; also for an entry with both a doi and a pmid/pmcid.
C2_PubmedTitleFallback ==
    Returned =>
        \A i \in 1..Len(submitted) :
            LET offer == PubmedOffer(submitted[i])
            IN  (/\ offer # NoRecord
                 /\ "title" \in DOMAIN offer
                 /\ ~DoiTitleOffered(submitted[i])) =>
                    /\ \E k \in 1..Len(package[i].statements) :
                          /\ package[i].statements[k].prop_nr = "P1476"
                          /\ package[i].statements[k].value = Cleaned(offer["title"])
                    /\ package[i].label = Cleaned(offer["title"])

SingleValued == {"P1476", "P356", "P698", "P932", "P577", "P1433", "P478", "P433",
                 "P304", "P364"}

\* C4: a returned record holds at most one statement per single-valued slot
\* (title, DOI, PMID, PMCID, publication date, venue, volume, issue, pages,
\* original language), identifier statements of the entry included.
C4_OneStatementPerSlot ==
    Returned =>
        \A i \in 1..Len(package) : \A prop \in SingleValued :
            Cardinality({ k \in 1..Len(package[i].statements) :
                              package[i].statements[k].prop_nr = prop }) <= 1

\* C6: a manifest with an entry that has none of doi, pmcid, pmid makes
\* get_data fail: no record is returned for such a manifest.
C6_NoIdentifierRejected ==
    Returned => \A i \in 1..Len(submitted) : DOMAIN submitted[i] \cap Identifiers # {}

\* C7: get_data leaves the submitted manifest unchanged: after the call every
\* entry has the keys and values, and its data list the elements, it had before.
C7_ManifestUnchanged ==
    Returned => manifest = submitted

\* C8: item_creator attempts one submission for every record get_data
\* returned, in manifest order; a failure while creating or submitting one
\* record never prevents the attempts for the records after it.
C8_EveryRecordSubmitted ==
    /\ \A k \in 1..Len(written) : written[k].record = k - 1
    /\ (pc = "done" \/ (pc = "raised" /\ error = "EngineError")) =>
           Len(written) = Len(package)

\* The providers hold no record for any identifier of the entry.
NothingFound(entry) ==
    /\ "doi" \in DOMAIN entry => doi_org[entry["doi"]] = NoRecord
    /\ "pmid" \in DOMAIN entry => pubmed[entry["pmid"]] = NoRecord
    /\ "pmcid" \in DOMAIN entry => pmc[entry["pmcid"]] = NoRecord

\* The statements known from the entry alone: the caller's extra statements,
\* the 'instance of: scientific article' marker, one statement per identifier.
KnownFromEntry(entry) ==
    (IF "data" \in DOMAIN entry
     THEN { entry["data"][k] : k \in 1..Len(entry["data"]) } ELSE {})
    \cup { WDItemID(<<"Q180686">>, "P31", NoRefs) }
    \cup { WDString(entry[id], "P698", NoRefs) : id \in DOMAIN entry \cap {"pmid"} }
    \cup { WDString(entry[id], "P932", NoRefs) : id \in DOMAIN entry \cap {"pmcid"} }
    \cup { WDString(entry[id], "P356", NoRefs) : id \in DOMAIN entry \cap {"doi"} }

\* C9: for entries whose identifiers yield no DOI-registration record and no
\* PubMed-family record, get_data does not raise and returns records holding
\* only the caller's extra statements, the type marker and the identifier
\* statements, with an empty label.
C9_NothingFoundTolerated ==
    (\A i \in 1..Len(submitted) :
        /\ DOMAIN submitted[i] \subseteq {"doi", "pmcid", "pmid", "data"}
        /\ DOMAIN submitted[i] \cap Identifiers # {}
        /\ NothingFound(submitted[i])) =>
            /\ ~GetDataRaised
            /\ Returned =>
                  \A i \in 1..Len(package) :
                      /\ { package[i].statements[k] : k \in 1..Len(package[i].statements) }
                             = KnownFromEntry(submitted[i])
                      /\ package[i].label = << >>


\* What the provider of an identifier name holds for a value.
Held(name, value) ==
    CASE name = "doi"   -> doi_org[value]
      [] name = "pmid"  -> pubmed[value]
      [] name = "pmcid" -> pmc[value]

\* C12: get_data returns one record per manifest entry, at the entry's
\* position; every entry whose looked-up identifier the provider holds a
\* record for has that record in its own package entry and statements filled
\* from it, also when another entry carries the same identifier value; and a
\* package entry holds no record but the one of an identifier of its entry.
C12_EveryEntryGetsItsRecord ==
    Returned =>
        /\ Len(package) = Len(submitted)
        /\ \A i \in 1..Len(package) :
              \A name \in LookedUp(submitted[i]) \cap Identifiers :
                  Held(name, submitted[i][name]) # NoRecord =>
                      /\ name \in DOMAIN package[i].raw_data
                      /\ package[i].raw_data[name] = Stamped(Held(name, submitted[i][name]))
                      /\ name = "doi" =>
                            \E k \in 1..Len(package[i].statements) :
                                package[i].statements[k].references = OwnDoiRef(i)
        /\ \A i \in 1..Len(package) :
              \A name \in DOMAIN package[i].raw_data :
                  /\ name \in DOMAIN submitted[i]
                  /\ package[i].raw_data[name] = Stamped(Held(name, submitted[i][name]))

\* The month names of the calendar, in order.
MonthNames ==
    <<"Jan", "Feb", "Mar", "Apr", "May", "Jun", "Jul", "Aug", "Sep", "Oct", "Nov", "Dec">>

\* The two digits of the month a token names; "00" when it names none.
TwoDigitMonth(token) ==
    IF \E k \in 1..Len(MonthNames) : token = <<MonthNames[k]>>
    THEN LET k == CHOOSE j \in 1..Len(MonthNames) : token = <<MonthNames[j]>>
         IN  IF k < 10 THEN <<"0", ToString(k)>> ELSE <<"1", ToString(k - 10)>>
    ELSE <<"0", "0">>

\* A day token padded on the left with zeros to two digits.
TwoDigitDay(token) ==
    IF Len(token) = 0 THEN <<"0", "0">>
    ELSE IF Len(token) = 1 THEN <<"0">> \o token
    ELSE token

\* The date and precision a pubdate of one to three tokens stands for.
DateOf(tokens) ==
    IF Len(tokens) = 3
    THEN [value |-> <<"+">> \o tokens[1] \o <<"-">> \o TwoDigitMonth(tokens[2])
                        \o <<"-">> \o TwoDigitDay(tokens[3]) \o <<"T00:00:00Z">>,
          precision |-> 11]
    ELSE IF Len(tokens) = 2
    THEN [value |-> <<"+">> \o tokens[1] \o <<"-">> \o TwoDigitMonth(tokens[2])
                        \o <<"-", "0", "0", "T00:00:00Z">>,
          precision |-> 10]
    ELSE [value |-> <<"+">> \o tokens[1] \o <<"-", "0", "0", "-", "0", "0", "T00:00:00Z">>,
          precision |-> 9]

\* Every entry of the submitted manifest has identifier keys only.
IdentifiersOnly == \A j \in 1..Len(submitted) : DOMAIN submitted[j] \subseteq Identifiers

\* The PubMed-family record get_data asks for on behalf of entry i: what the
\* provider holds for the PubMed-family identifier the entry is looked up by.
PubmedAsked(i) ==
    IF LookedUp(submitted[i]) \cap {"pmid", "pmcid"} = {} THEN NoRecord
    ELSE LET name == CHOOSE n \in LookedUp(submitted[i]) \cap {"pmid", "pmcid"} : TRUE
         IN  Held(name, submitted[i][name])

\* C11: for an entry looked up at a PubMed-family provider that holds a
\* record with a pubdate (the entry has no DOI, so its date slot is empty):
\* get_data does not raise, and the entry's returned record has one date
\* statement, with the PubMed reference: a pubdate of three tokens at day
\* precision (11) with the month from the 12-entry table ("00" for an unknown
\* name) and the day padded to two digits, of two tokens at month precision
\* (10) with day "00", of one token at year precision (9) with month and day
\* "00".  A record whose date the DOI-registration record filled has no date
\* with another reference.
C11_PubdateByTokenCount ==
    /\ \A i \in 1..Len(submitted) :
          (/\ IdentifiersOnly
           /\ PubmedAsked(i) # NoRecord
           /\ "pubdate" \in DOMAIN PubmedAsked(i)
           /\ Len(Split(PubmedAsked(i)["pubdate"], " ")) \in 1..3) =>
              /\ ~GetDataRaised
              /\ Returned =>
                    LET tokens == Split(PubmedAsked(i)["pubdate"], " ")
                        dates == Provided(i, "P577")
                    IN  /\ Len(dates) = 1
                        /\ dates[1].value = DateOf(tokens).value
                        /\ dates[1].precision = DateOf(tokens).precision
                        /\ dates[1].references = OwnPubmedRef(i)
    /\ Returned =>
          \A i \in 1..Len(package) :
              (HasDoiRecord(i) /\ "created" \in DOMAIN package[i].raw_data["doi"]) =>
                  \A k \in 1..Len(Provided(i, "P577")) :
                      Provided(i, "P577")[k].references = OwnDoiRef(i)

\* C13: for an entry looked up at a PubMed-family provider that holds a
\* record whose title is empty after cleaning (the entry has no DOI, so its
\* title slot is empty): get_data does not raise; it returns one record per
\* entry, and the entry's record has no title statement, an empty label, and
\* the record's remaining slots filled (its volume).
C13_EmptyTitleSkipped ==
    \A i \in 1..Len(submitted) :
        (/\ IdentifiersOnly
         /\ PubmedAsked(i) # NoRecord
         /\ "title" \in DOMAIN PubmedAsked(i)
         /\ Cleaned(PubmedAsked(i)["title"]) = << >>) =>
            /\ ~GetDataRaised
            /\ Returned =>
                  /\ Len(package) = Len(submitted)
                  /\ Provided(i, "P1476") = << >>
                  /\ package[i].label = << >>
                  /\ "volume" \in DOMAIN PubmedAsked(i) => Len(Provided(i, "P478")) = 1

====
